---------------------------- MODULE Spec2Model ----------------------------
(***************************************************************************)
(* A model of the temporal planner: the compiled task and the PDDL parser  *)
(* (temporal_task.rs), the state space (state_space.rs), the A* search     *)
(* (search.rs), the heuristics (heuristics.rs), the simple temporal        *)
(* network (scheduler.rs) and the foreign-function interface (ffi.rs,      *)
(* lib.rs).                                                                *)
(*                                                                         *)
(* Representation.  A ground fact is its index 1..NumFacts into            *)
(* State.facts; a Condition or an Effect carries that index in its         *)
(* `predicate` field.  Times, durations and costs (f64 in the source) are  *)
(* integers.  Vec<T> is a sequence, so an action index of the source       *)
(* (0-based) is the 1-based position in task.actions.  An Option<T> is a   *)
(* sequence of at most one T: None is <<>> and Some(x) is <<x>>.           *)
(*                                                                         *)
(* The specifications share the variables:                                 *)
(*   Spec            TemporalAStarSearch::search called on a task;         *)
(*   SpecExpand      the body of the search loop (search.rs 105-124) as a  *)
(*                   function of the popped node, iterated from the        *)
(*                   initial node: any pushed successor may be the node    *)
(*                   of a later iteration;                                 *)
(*   SpecStateSpace  a caller of the public StateSpace API                 *)
(*                   (get_applicable_actions, apply_action);               *)
(*   SpecFrontier    the search loop started on any heap and closed list;  *)
(*   SpecAdvance     process_scheduled_effects as a function of a state;   *)
(*   SpecParse       TemporalTask::from_pddl called on PDDL texts          *)
(*                   (temporal_task.rs 141-929);                           *)
(*   SpecFfi         a C caller of the solve functions of ffi.rs;          *)
(*   SpecPlan        SpecExpand with the return of a plan (search.rs       *)
(*                   94-96, 169-186);                                      *)
(*   SpecStn         a caller of SimpleTemporalNetwork (scheduler.rs);     *)
(*   SpecHeuristic   a caller of the heuristics (heuristics.rs);           *)
(*   SpecClock       process_scheduled_effects and apply_action at the     *)
(*                   state's clock, from the initial state of a task.      *)
(***************************************************************************)
EXTENDS Integers, Sequences, FiniteSets, TLC

VARIABLES
    task,          \* the TemporalTask handed to search / owned by StateSpace
    pc,            \* where the caller is: "start" | "loop" | "done" | "popped" | "pushed" |
                   \* "api" | "advance" | "parse" | "ffi" | "returned" | "aborted" |
                   \* "stn" | "panicked" | "heuristic"
    open_list,     \* search: the BinaryHeap of SearchNodes, as a sequence
    closed_list,   \* search: HashMap<State, f64>, as a set of <<state, g>>
    node,          \* search: Some(the node popped by the current iteration)
    result,        \* search: Some(the SearchResult returned), None before
    state,         \* API caller: Some(the TemporalState it passes by reference),
                   \* or Some(the SimpleTemporalNetwork it owns)
    call,          \* API caller: Some(the call made last)
    ret            \* API caller: Some(what that call returned)

vars == <<task, pc, open_list, closed_list, node, result, state, call, ret>>

None == <<>>

Some(x) == <<x>>

----------------------------------------------------------------------------
(* Bounds of the model.                                                    *)

NumFacts == 2       \* ground facts of a task
MaxAtoms == 2       \* conditions and effects of all actions of a task together
MaxActions == 2     \* actions of a task
MaxGoals == 1       \* goal conditions of a task
MaxDepth == 2       \* successors generated along one parent chain
MaxQueue == 4       \* scheduled effects an API caller lets a state hold
MaxTime == 1        \* latest start-time an API caller passes

\* Durations a task's actions take: the parser accepts any f64 after
\* "= ?duration", a negative one included (temporal_task.rs 415-421).
DurationValues == {-1, 1, 2}

----------------------------------------------------------------------------
(* Data types (temporal_task.rs 6-43, state_space.rs 5-17).                *)

Facts == 1..NumFacts

Condition == [predicate : Facts, is_negative : BOOLEAN]

Effect == [predicate : Facts, is_delete : BOOLEAN]

SeqsUpTo(S, n) == UNION {[1..k -> S] : k \in 0..n}

\* State.facts; numeric_values is left out (no operation below reads it).
State == [Facts -> BOOLEAN]

\* The actions holding exactly n atoms: l gives the length of each group.
ActionsWith(n) ==
    UNION {[duration : DurationValues,
            conditions_start : [1..l[1] -> Condition],
            conditions_over_all : [1..l[2] -> Condition],
            effects_start : [1..l[3] -> Effect],
            effects_end : [1..l[4] -> Effect]]
           : l \in {x \in [1..4 -> 0..n] : x[1] + x[2] + x[3] + x[4] = n}}

TemporalAction == UNION {ActionsWith(n) : n \in 0..MaxAtoms}

RECURSIVE ActionSeqs(_, _)
\* The sequences of k actions holding at most n atoms together.
ActionSeqs(k, n) ==
    IF k = 0 THEN {<<>>}
    ELSE UNION {{<<a>> \o s : s \in ActionSeqs(k - 1, n - m), a \in ActionsWith(m)}
                : m \in 0..n}

TaskActions == UNION {ActionSeqs(k, MaxAtoms) : k \in 1..MaxActions}

\* TemporalTask; mutex_groups is left out (never read).
TemporalTask ==
    [initial_state : State,
     goal_conditions : SeqsUpTo(Condition, MaxGoals),
     actions : TaskActions]

----------------------------------------------------------------------------
(* heuristics.rs                                                           *)

build_relaxed_planning_graph(st, t) == 0

compute(st, t) == build_relaxed_planning_graph(st, t)

\* TemporalAdmissibleHeuristic::compute.
admissible_compute(st, t) == 0

----------------------------------------------------------------------------
(* state_space.rs                                                          *)

check_condition(condition, classical) == TRUE

is_applicable(action, st) ==
    \A k \in 1..Len(action.conditions_start) :
        check_condition(action.conditions_start[k], st.classical_state)

get_applicable_actions(st) ==
    LET all == [idx \in 1..Len(task.actions) |-> <<idx, st.time>>]
        Keep(p) == is_applicable(task.actions[p[1]], st)
    IN  SelectSeq(all, Keep)

apply_effect(classical, effect) == classical

RECURSIVE apply_effects(_, _)
\* The loop of apply_action over effects_start.
apply_effects(classical, effects) ==
    IF effects = <<>> THEN classical
    ELSE apply_effects(apply_effect(classical, Head(effects)), Tail(effects))

\* apply_action with the end effects scheduled from the state's clock instead
\* of from start_time.
apply_action_from_clock(st, action_idx, start_time) ==
    LET action == task.actions[action_idx]
        pushed == [k \in 1..Len(action.effects_end) |->
                      [time |-> st.time + action.duration,
                       effect |-> action.effects_end[k],
                       action_id |-> action_idx]]
    IN  [classical_state |-> apply_effects(st.classical_state, action.effects_start),
         scheduled_effects |-> st.scheduled_effects \o pushed,
         time |-> st.time]

apply_action(st, action_idx, start_time) ==
    LET action == task.actions[action_idx]
        pushed == [k \in 1..Len(action.effects_end) |->
                      [time |-> start_time + action.duration,
                       effect |-> action.effects_end[k],
                       action_id |-> action_idx]]
    IN  [classical_state |-> apply_effects(st.classical_state, action.effects_start),
         scheduled_effects |-> st.scheduled_effects \o pushed,
         time |-> st.time]

----------------------------------------------------------------------------
(* search.rs                                                               *)

\* f_value with the sign the heap's order would have without the reversal
\* of SearchNode::cmp: the node of greatest f is popped first.
f_value_unreversed(n) == 0 - (n.g_value + n.h_value)

f_value(n) == n.g_value + n.h_value

\* is_goal with the goal conditions of the task tested on the facts.
is_goal_checked(st, t) ==
    /\ st.scheduled_effects = <<>>
    /\ \A k \in 1..Len(t.goal_conditions) :
           st.classical_state[t.goal_conditions[k].predicate]
               = ~t.goal_conditions[k].is_negative

is_goal(st, t) == st.scheduled_effects = <<>>

\* process_scheduled_effects that removes no entry from the queue.
process_scheduled_effects_keeping(st) ==
    LET times == {st.scheduled_effects[k].time : k \in 1..Len(st.scheduled_effects)}
        next_time == IF times = {} THEN st.time
                     ELSE CHOOSE m \in times : \A x \in times : m <= x
    IN  [classical_state |-> st.classical_state,
         scheduled_effects |-> st.scheduled_effects,
         time |-> next_time]

\* process_scheduled_effects that keeps the entries due at next_time in the
\* queue: only the entries before it are removed.
process_scheduled_effects_strict(st) ==
    LET times == {st.scheduled_effects[k].time : k \in 1..Len(st.scheduled_effects)}
        next_time == IF times = {} THEN st.time
                     ELSE CHOOSE m \in times : \A x \in times : m <= x
        Remains(e) == ~(e.time < next_time)
    IN  [classical_state |-> st.classical_state,
         scheduled_effects |-> SelectSeq(st.scheduled_effects, Remains),
         time |-> next_time]

process_scheduled_effects(st) ==
    LET times == {st.scheduled_effects[k].time : k \in 1..Len(st.scheduled_effects)}
        next_time == IF times = {} THEN st.time
                     ELSE CHOOSE m \in times : \A x \in times : m <= x
        Remains(e) == ~(e.time <= next_time)
    IN  [classical_state |-> st.classical_state,
         scheduled_effects |-> SelectSeq(st.scheduled_effects, Remains),
         time |-> next_time]

RECURSIVE plan_of(_)
\* The (action_idx, time) pairs extract_plan collects, already reversed.
plan_of(n) ==
    LET above == IF n.parent = None THEN <<>> ELSE plan_of(n.parent[1])
    IN  above \o (IF n.action_idx = None THEN <<>>
                  ELSE <<<<n.action_idx[1], n.state.time>>>>)

\* extract_plan without plan.reverse(): the actions from the goal node back
\* to the initial node.
extract_plan_unreversed(goal_node) ==
    LET plan == plan_of(goal_node)
    IN  [kind |-> "Solution",
         actions |-> [k \in 1..Len(plan) |-> plan[Len(plan) + 1 - k][1]],
         cost |-> goal_node.g_value]

extract_plan(goal_node) ==
    LET plan == plan_of(goal_node)
    IN  [kind |-> "Solution",
         actions |-> [k \in 1..Len(plan) |-> plan[k][1]],
         cost |-> goal_node.g_value]

Failure == [kind |-> "Failure"]

initial_state(t) ==
    [classical_state |-> t.initial_state, scheduled_effects |-> <<>>, time |-> 0]

initial_node(t) ==
    [state |-> initial_state(t),
     g_value |-> 0,
     h_value |-> compute(initial_state(t), t),
     parent |-> None,
     action_idx |-> None]

\* The node the loop body builds for one applicable (action_idx, start_time).
successor_node(n, processed_state, action_idx, start_time) ==
    LET successor_state == apply_action(processed_state, action_idx, start_time)
    IN  [state |-> successor_state,
         g_value |-> n.g_value + (successor_state.time - n.state.time),
         h_value |-> compute(successor_state, task),
         parent |-> Some(n),
         action_idx |-> Some(action_idx)]

\* The nodes pushed for node n once its scheduled effects are processed.
successors_of(n, processed_state) ==
    LET applicable == get_applicable_actions(processed_state)
    IN  [k \in 1..Len(applicable) |->
            successor_node(n, processed_state, applicable[k][1], applicable[k][2])]

successors(n) == successors_of(n, process_scheduled_effects(n.state))

RemoveAt(s, k) == SubSeq(s, 1, k - 1) \o SubSeq(s, k + 1, Len(s))

closed_contains(classical) == \E c \in closed_list : c[1] = classical

----------------------------------------------------------------------------
(* Spec: search called on a task.                                          *)

Init ==
    /\ task \in TemporalTask
    /\ pc = "start"
    /\ open_list = <<>>
    /\ closed_list = {}
    /\ node = None
    /\ result = None
    /\ state = None
    /\ call = None
    /\ ret = None

\* search.rs 72-90: the initial node is built and pushed.
SearchBegin ==
    /\ pc = "start"
    /\ open_list' = <<initial_node(task)>>
    /\ closed_list' = {}
    /\ pc' = "loop"
    /\ UNCHANGED <<task, node, result, state, call, ret>>

\* search.rs 92-127: one iteration of the loop, or its end.
SearchStep ==
    /\ pc = "loop"
    /\ IF open_list = <<>>
       THEN /\ result' = Some(Failure)
            /\ pc' = "done"
            /\ UNCHANGED <<open_list, closed_list, node>>
       ELSE \E k \in 1..Len(open_list) :
            /\ \A j \in 1..Len(open_list) : f_value(open_list[k]) <= f_value(open_list[j])
            /\ node' = Some(open_list[k])
            /\ IF is_goal(open_list[k].state, task)
               THEN /\ result' = Some(extract_plan(open_list[k]))
                    /\ pc' = "done"
                    /\ open_list' = RemoveAt(open_list, k)
                    /\ UNCHANGED closed_list
               ELSE IF closed_contains(open_list[k].state.classical_state)
               THEN /\ open_list' = RemoveAt(open_list, k)
                    /\ UNCHANGED <<closed_list, result, pc>>
               ELSE /\ closed_list' = closed_list \cup
                            {<<open_list[k].state.classical_state, open_list[k].g_value>>}
                    /\ open_list' = RemoveAt(open_list, k) \o successors(open_list[k])
                    /\ UNCHANGED <<result, pc>>
    /\ UNCHANGED <<task, state, call, ret>>

Next == SearchBegin \/ SearchStep

Spec == Init /\ [][Next]_vars

----------------------------------------------------------------------------
(* SpecExpand: the loop body, search.rs 105-124, iterated.                 *)

\* The tasks the loop body and the StateSpace API are run on: neither reads
\* the goal conditions, which are left empty.
GoalFreeTask ==
    [initial_state : State, goal_conditions : {<<>>}, actions : TaskActions]

RECURSIVE Depth(_)
\* The number of actions on the parent chain of n.
Depth(n) == IF n.parent = None THEN 0 ELSE 1 + Depth(n.parent[1])

InitExpand ==
    /\ task \in GoalFreeTask
    /\ pc = "popped"
    /\ open_list = <<>>
    /\ closed_list = {}
    /\ node = Some(initial_node(task))
    /\ result = None
    /\ state = None
    /\ call = None
    /\ ret = None

\* GenerateSuccessors with process_scheduled_effects working on the popped
\* node's own state instead of on a clone of it.
GenerateSuccessorsInPlace ==
    /\ pc = "popped"
    /\ Depth(node[1]) < MaxDepth
    /\ node' = Some([node[1] EXCEPT !.state = process_scheduled_effects(@)])
    /\ open_list' = successors_of(node'[1], node'[1].state)
    /\ pc' = "pushed"
    /\ UNCHANGED <<task, closed_list, result, state, call, ret>>

\* search.rs 105-124: the scheduled effects of the popped node are processed
\* and one successor per applicable action is pushed.  open_list holds the
\* nodes this iteration pushed.
GenerateSuccessors ==
    /\ pc = "popped"
    /\ Depth(node[1]) < MaxDepth
    /\ open_list' = successors(node[1])
    /\ pc' = "pushed"
    /\ UNCHANGED <<task, closed_list, node, result, state, call, ret>>

\* search.rs 92: a pushed successor is popped by a later iteration.  The heap
\* holds the nodes of other iterations too, so which successor comes next is
\* left open.
PopSuccessor ==
    /\ pc = "pushed"
    /\ \E k \in 1..Len(open_list) : node' = Some(open_list[k])
    /\ open_list' = <<>>
    /\ pc' = "popped"
    /\ UNCHANGED <<task, closed_list, result, state, call, ret>>

NextExpand == GenerateSuccessors \/ PopSuccessor

SpecExpand == InitExpand /\ [][NextExpand]_vars

----------------------------------------------------------------------------
(* SpecStateSpace: a caller of the public API of StateSpace.               *)

InitStateSpace ==
    /\ task \in GoalFreeTask
    /\ pc = "api"
    /\ open_list = <<>>
    /\ closed_list = {}
    /\ node = None
    /\ result = None
    /\ state = Some(initial_state(task))
    /\ call = None
    /\ ret = None

\* state_space.rs 32-42, called on the caller's state.
CallGetApplicableActions ==
    /\ pc = "api"
    /\ call' = Some([op |-> "get_applicable_actions"])
    /\ ret' = Some(get_applicable_actions(state[1]))
    /\ UNCHANGED <<task, pc, open_list, closed_list, node, result, state>>

\* state_space.rs 64-83, called on the caller's state with any action index
\* and start-time.
CallApplyAction ==
    /\ pc = "api"
    /\ \E action_idx \in 1..Len(task.actions), start_time \in 0..MaxTime :
        /\ Len(state[1].scheduled_effects) + Len(task.actions[action_idx].effects_end)
               <= MaxQueue
        /\ call' = Some([op |-> "apply_action", action_idx |-> action_idx,
                         start_time |-> start_time])
        /\ ret' = Some(apply_action(state[1], action_idx, start_time))
    /\ UNCHANGED <<task, pc, open_list, closed_list, node, result, state>>

\* The caller goes on with the state apply_action returned.
KeepReturnedState ==
    /\ pc = "api"
    /\ call # None
    /\ call[1].op = "apply_action"
    /\ state' = ret
    /\ call' = None
    /\ ret' = None
    /\ UNCHANGED <<task, pc, open_list, closed_list, node, result>>

NextStateSpace == CallGetApplicableActions \/ CallApplyAction \/ KeepReturnedState

SpecStateSpace == InitStateSpace /\ [][NextStateSpace]_vars

----------------------------------------------------------------------------
(* What the claims speak of: a condition holding, an effect taking place,  *)
(* a plan being executed.                                                  *)

Holds(c, classical) == classical[c.predicate] = ~c.is_negative

AllHold(conditions, classical) ==
    \A k \in 1..Len(conditions) : Holds(conditions[k], classical)

GoalHolds(classical) == AllHold(task.goal_conditions, classical)

Effected(classical, e) == [classical EXCEPT ![e.predicate] = ~e.is_delete]

RECURSIVE AllEffected(_, _)
AllEffected(classical, effects) ==
    IF effects = <<>> THEN classical
    ELSE AllEffected(Effected(classical, Head(effects)), Tail(effects))

RECURSIVE Executed(_, _)
\* The facts after the actions of a plan ran in order, each from its start
\* (its at-start effects) to its end (its at-end effects): nothing stays
\* scheduled.
Executed(classical, actions) ==
    IF actions = <<>> THEN classical
    ELSE LET a == task.actions[Head(actions)]
         IN  Executed(AllEffected(AllEffected(classical, a.effects_start), a.effects_end),
                      Tail(actions))

Adds(a, f) ==
    \/ \E k \in 1..Len(a.effects_start) :
           a.effects_start[k] = [predicate |-> f, is_delete |-> FALSE]
    \/ \E k \in 1..Len(a.effects_end) :
           a.effects_end[k] = [predicate |-> f, is_delete |-> FALSE]

Falsifies(e, c) == e.predicate = c.predicate /\ e.is_delete = ~c.is_negative

RECURSIVE Ancestors(_)
\* The nodes on the parent chain of n.
Ancestors(n) ==
    IF n.parent = None THEN {} ELSE {n.parent[1]} \cup Ancestors(n.parent[1])

Returned == pc = "done" /\ result # None

----------------------------------------------------------------------------
(* Claims checked under Spec.                                              *)

\* C1: whenever search returns a plan, executing the plan's actions in order
\* from the task's initial state ends in a state in which every goal
\* condition holds (and nothing is left scheduled).
C1_PlanReachesGoal ==
    (Returned /\ result[1].kind = "Solution")
        => GoalHolds(Executed(task.initial_state, result[1].actions))

\* C2: the goal test accepts the popped node's state if and only if every
\* goal condition holds in its classical state and its queue is empty.
C2_GoalTestExact ==
    node # None =>
        (is_goal(node[1].state, task)
            <=> (/\ GoalHolds(node[1].state.classical_state)
                 /\ node[1].state.scheduled_effects = <<>>))

\* The tasks of C3: one action of positive duration whose at-start
\* conditions hold initially and which adds the only goal fact, false
\* initially.
C3_Task ==
    /\ Len(task.actions) = 1
    /\ task.actions[1].duration > 0
    /\ AllHold(task.actions[1].conditions_start, task.initial_state)
    /\ Len(task.goal_conditions) = 1
    /\ ~task.goal_conditions[1].is_negative
    /\ ~task.initial_state[task.goal_conditions[1].predicate]
    /\ Adds(task.actions[1], task.goal_conditions[1].predicate)

\* C3: on such a task search returns the plan of exactly that action, at the
\* cost of its duration.
C3_OneActionPlan ==
    (Returned /\ C3_Task)
        => result[1] = [kind |-> "Solution", actions |-> <<1>>,
                        cost |-> task.actions[1].duration]

\* The tasks of C4: a positive goal fact is false initially and no action
\* adds it.
C4_Task ==
    \E g \in 1..Len(task.goal_conditions) :
        /\ ~task.goal_conditions[g].is_negative
        /\ ~task.initial_state[task.goal_conditions[g].predicate]
        /\ \A i \in 1..Len(task.actions) :
               ~Adds(task.actions[i], task.goal_conditions[g].predicate)

\* C4: on such a task search returns Failure, never a plan.
C4_UnreachableGoalFails ==
    (Returned /\ C4_Task) => result[1].kind = "Failure"

----------------------------------------------------------------------------
(* Claims checked under SpecStateSpace.                                    *)

Called(op) == call # None /\ call[1].op = op

\* C5: get_applicable_actions returns an action if and only if every
\* at-start condition of it holds in the classical state it was given.
C5_ApplicableIffStartConditions ==
    Called("get_applicable_actions") =>
        \A idx \in 1..Len(task.actions) :
            (\E k \in 1..Len(ret[1]) : ret[1][k][1] = idx)
                <=> AllHold(task.actions[idx].conditions_start,
                            state[1].classical_state)

\* C6: apply_action returns the classical state it was given with every
\* at-start add effect's fact made true and every at-start delete effect's
\* fact made false, the other facts unchanged.
C6_StartEffectsApplied ==
    Called("apply_action") =>
        ret[1].classical_state =
            AllEffected(state[1].classical_state,
                        task.actions[call[1].action_idx].effects_start)

\* C7: apply_action returns the queue it was given, unchanged and in the
\* same order, followed by one entry per at-end effect of the action, in
\* their order, each due at start-time + duration and carrying the action's
\* index.
C7_EndEffectsEnqueued ==
    Called("apply_action") =>
        LET old == state[1].scheduled_effects
            new == ret[1].scheduled_effects
            action == task.actions[call[1].action_idx]
        IN  /\ Len(new) = Len(old) + Len(action.effects_end)
            /\ \A k \in 1..Len(old) : new[k] = old[k]
            /\ \A k \in 1..Len(action.effects_end) :
                   /\ new[Len(old) + k].effect = action.effects_end[k]
                   /\ new[Len(old) + k].time = call[1].start_time + action.duration
                   /\ new[Len(old) + k].action_id = call[1].action_idx

\* C7's case: a non-empty queue, an action with two at-end effects, a
\* start-time that is not the state's clock.
C7_Witness ==
    /\ Called("apply_action")
    /\ state[1].scheduled_effects # <<>>
    /\ Len(task.actions[call[1].action_idx].effects_end) = 2
    /\ call[1].start_time # state[1].time
    /\ Len(ret[1].scheduled_effects) = Len(state[1].scheduled_effects) + 2

----------------------------------------------------------------------------
(* Claims checked under SpecExpand.                                        *)

\* C8: no successor is generated by an action with an effect that falsifies
\* an over-all condition of an action of its parent chain at an instant
\* strictly inside that action's interval (start, start + duration).
C8_OverAllProtected ==
    \A k \in 1..Len(open_list) :
        LET s == open_list[k]
            a2 == task.actions[s.action_idx[1]]
            Inside(t, m) ==
                /\ m.state.time < t
                /\ t < m.state.time + task.actions[m.action_idx[1]].duration
        IN  \A m \in {s.parent[1]} \cup Ancestors(s.parent[1]) :
                m.action_idx # None =>
                    \A c \in 1..Len(task.actions[m.action_idx[1]].conditions_over_all) :
                        LET cond == task.actions[m.action_idx[1]].conditions_over_all[c]
                        IN  /\ \A e \in 1..Len(a2.effects_start) :
                                   ~(/\ Falsifies(a2.effects_start[e], cond)
                                     /\ Inside(s.state.time, m))
                            /\ \A e \in 1..Len(a2.effects_end) :
                                   ~(/\ Falsifies(a2.effects_end[e], cond)
                                     /\ Inside(s.state.time + a2.duration, m))

C10_NothingMutated ==
    [][/\ task' = task
       /\ (pc = "popped" /\ pc' = "pushed") =>
              /\ node' = node
              /\ \A k \in 1..Len(open_list') : open_list'[k].parent = node]_vars

\* C10's case: successors were generated from a node with scheduled effects,
\* which processing removed from the state the successors were built on.
C10_Witness ==
    /\ pc = "pushed"
    /\ open_list # <<>>
    /\ node[1].state.scheduled_effects # <<>>
    /\ process_scheduled_effects(node[1].state) # node[1].state

----------------------------------------------------------------------------
(* SpecFrontier: the search loop, search.rs 92-127, run from any frontier. *)
(* A call of search only ever holds the initial node in its heap (its      *)
(* first pop is a goal), so what the loop does with a heap of several      *)
(* nodes and a non-empty closed list is looked at from every such heap.    *)

MaxOpen == 2        \* nodes of the heap the loop is started on
MaxG == 1           \* largest g-value of such a node
MaxFire == 2        \* latest fire-time of a scheduled effect met by the loop

\* One action of at most one atom; the loop reads neither the initial state
\* nor the goal conditions.
FrontierTask ==
    [initial_state : {[f \in Facts |-> FALSE]},
     goal_conditions : {<<>>},
     actions : ActionSeqs(1, 1)]

\* The queues of the nodes of the heap: empty, or one effect still to fire.
FrontierQueues ==
    {<<>>} \cup {<<[time |-> t, effect |-> [predicate |-> 1, is_delete |-> FALSE],
                    action_id |-> 1]>> : t \in 1..MaxFire}

\* SearchNode, as search.rs 78-84 and 113-119 build it; h_value is what
\* compute returns.
FrontierNode ==
    {[state |-> [classical_state |-> c, scheduled_effects |-> q, time |-> 0],
      g_value |-> g,
      h_value |-> 0,
      parent |-> None,
      action_idx |-> None] : c \in State, q \in FrontierQueues, g \in 0..MaxG}

InitFrontier ==
    /\ task \in FrontierTask
    /\ pc = "loop"
    /\ open_list \in SeqsUpTo(FrontierNode, MaxOpen)
    /\ closed_list \in {{}} \cup {{<<c, g>>} : c \in State, g \in 0..MaxG}
    /\ node = None
    /\ result = None
    /\ state = None
    /\ call = None
    /\ ret = None

NextFrontier == SearchStep

SpecFrontier == InitFrontier /\ [][NextFrontier]_vars

----------------------------------------------------------------------------
(* Claims checked under SpecFrontier.                                      *)

\* C11: when search returns a plan, the plan's cost is at most the g-value
\* of every other node the search has generated whose state passes the goal
\* test.  (A generated node is in the heap or was popped; a popped node
\* that passed the goal test ended the search, so the others are the nodes
\* still in the heap.)
C11_CostMinimalAmongGenerated ==
    (Returned /\ result[1].kind = "Solution") =>
        \A k \in 1..Len(open_list) :
            is_goal(open_list[k].state, task) =>
                result[1].cost <= open_list[k].g_value

\* C11's case: a plan was returned while another node that passes the goal
\* test, of a greater g-value, was in the heap.
C11_Witness ==
    /\ Returned
    /\ result[1].kind = "Solution"
    /\ \E k \in 1..Len(open_list) :
           /\ is_goal(open_list[k].state, task)
           /\ open_list[k].g_value > result[1].cost

----------------------------------------------------------------------------
(* SpecAdvance: process_scheduled_effects (search.rs 140-167), the step    *)
(* that advances time, as a function of the state it is given.             *)

MaxPending == 3     \* scheduled effects of the state time is advanced on

\* The at-end effects every scheduled effect below stems from.
AdvanceEffects ==
    <<[predicate |-> 1, is_delete |-> FALSE], [predicate |-> 1, is_delete |-> TRUE],
      [predicate |-> 2, is_delete |-> FALSE], [predicate |-> 2, is_delete |-> TRUE]>>

\* A task of one action holding those effects.
AdvanceTask ==
    [initial_state |-> [f \in Facts |-> FALSE],
     goal_conditions |-> <<>>,
     actions |-> <<[duration |-> 1,
                    conditions_start |-> <<>>,
                    conditions_over_all |-> <<>>,
                    effects_start |-> <<>>,
                    effects_end |-> AdvanceEffects]>>]

ScheduledEffect ==
    [time : 0..MaxFire, effect : {AdvanceEffects[k] : k \in 1..Len(AdvanceEffects)},
     action_id : {1}]

TemporalState ==
    [classical_state : State,
     scheduled_effects : SeqsUpTo(ScheduledEffect, MaxPending),
     time : 0..MaxTime]

InitAdvance ==
    /\ task = AdvanceTask
    /\ pc = "advance"
    /\ open_list = <<>>
    /\ closed_list = {}
    /\ node = None
    /\ result = None
    /\ state \in {Some(st) : st \in TemporalState}
    /\ call = None
    /\ ret = None

\* search.rs 106: the loop body processes the scheduled effects of a state.
CallProcessScheduledEffects ==
    /\ pc = "advance"
    /\ call = None
    /\ call' = Some([op |-> "process_scheduled_effects"])
    /\ ret' = Some(process_scheduled_effects(state[1]))
    /\ UNCHANGED <<task, pc, open_list, closed_list, node, result, state>>

\* search.rs 107-112: the loop body goes on with the processed state.
KeepProcessedState ==
    /\ pc = "advance"
    /\ call # None
    /\ state' = ret
    /\ call' = None
    /\ ret' = None
    /\ UNCHANGED <<task, pc, open_list, closed_list, node, result>>

NextAdvance == CallProcessScheduledEffects \/ KeepProcessedState

SpecAdvance == InitAdvance /\ [][NextAdvance]_vars

----------------------------------------------------------------------------
(* Claims checked under SpecAdvance.                                       *)

\* The least fire-time of a non-empty queue.
EarliestFire(queue) ==
    CHOOSE m \in {queue[k].time : k \in 1..Len(queue)} :
        \A k \in 1..Len(queue) : m <= queue[k].time

RECURSIVE Without(_, _)
\* The queue with the entries due at t taken out, the others in their order.
Without(queue, t) ==
    IF queue = <<>> THEN <<>>
    ELSE (IF Head(queue).time = t THEN <<>> ELSE <<Head(queue)>>)
             \o Without(Tail(queue), t)

\* C19: advancing time on a non-empty queue sets the clock to the least
\* fire-time, takes exactly the entries due then out of the queue and keeps
\* the later entries in their order; on an empty queue the state comes back
\* unchanged.
C19_AdvanceToEarliest ==
    Called("process_scheduled_effects") =>
        LET old == state[1]
            new == ret[1]
        IN  IF old.scheduled_effects = <<>> THEN new = old
            ELSE /\ new.time = EarliestFire(old.scheduled_effects)
                 /\ new.scheduled_effects =
                        Without(old.scheduled_effects, EarliestFire(old.scheduled_effects))

\* C19's case: of three entries the second is due first and is removed, the
\* two later ones, of different fire-times, stay in their order.
C19_Witness ==
    /\ Called("process_scheduled_effects")
    /\ Len(state[1].scheduled_effects) = 3
    /\ state[1].scheduled_effects[2].time < state[1].scheduled_effects[3].time
    /\ state[1].scheduled_effects[3].time < state[1].scheduled_effects[1].time
    /\ ret[1].scheduled_effects =
           <<state[1].scheduled_effects[1], state[1].scheduled_effects[3]>>
    /\ ret[1].time = state[1].scheduled_effects[2].time

\* The effects of the entries of a queue due at t, in queue order.
DueAt(queue, t) ==
    LET Due(e) == e.time = t
        due == SelectSeq(queue, Due)
    IN  [k \in 1..Len(due) |-> due[k].effect]

\* The facts after the effects fired delete-first: every delete effect
\* clears its fact, then every add effect sets its fact.
DeleteFirst(classical, effects) ==
    [f \in DOMAIN classical |->
        IF \E k \in 1..Len(effects) : effects[k] = [predicate |-> f, is_delete |-> FALSE]
        THEN TRUE
        ELSE IF \E k \in 1..Len(effects) : effects[k] = [predicate |-> f, is_delete |-> TRUE]
        THEN FALSE
        ELSE classical[f]]

\* C20: when time advances to t, the classical state afterwards is the one
\* before with the facts of the delete effects due at t cleared and then the
\* facts of the add effects due at t set.
C20_DueEffectsApplied ==
    (Called("process_scheduled_effects") /\ state[1].scheduled_effects # <<>>) =>
        ret[1].classical_state =
            DeleteFirst(state[1].classical_state,
                        DueAt(state[1].scheduled_effects,
                              EarliestFire(state[1].scheduled_effects)))

----------------------------------------------------------------------------
(* temporal_task.rs: the PDDL parser.                                      *)
(*                                                                         *)
(* A text (&str, String) is the sequence of its lexical units: "(", ")",   *)
(* a blank " ", a line end "\n", a comment sign ";" and words (maximal     *)
(* runs of other characters, each a string).  The loops of the source over *)
(* characters are loops over units; a word is never split.  A position in  *)
(* a text is 1-based and find gives 0 for Option::None.                    *)

IsSpace(u) == u = " " \/ u = "\n"

\* The words that are not wholly of the class [a-zA-Z0-9_-] of the regexes.
IsIdentifier(u) ==
    u \notin {"(", ")", " ", "\n", ";", "=", "<=", "+", ":action", ":durative-action",
              ":parameters", ":duration", ":condition", ":precondition",
              ":effect", ":predicates", ":init", ":goal", ":requirements",
              ":strips", ":durative-actions", ":domain",
              "?duration", "?x", "?y", "?d"}

\* starts_with('?') of a word.
IsVariable(u) == u \in {"?duration", "?x", "?y", "?d"}

\* str::parse::<f64> of a word of the model: Some(value) or None for Err.
parse_f64(word) ==
    IF word = <<"5">> THEN Some(5)
    ELSE IF word = <<"2">> THEN Some(2)
    ELSE IF word = <<"-1">> THEN Some(-1)
    ELSE None

From(content, i) == SubSeq(content, i, Len(content))

\* str::find of a pattern of units: the first position it occurs at, or 0.
find(content, pattern) ==
    LET hits == {i \in 1..(Len(content) - Len(pattern) + 1) :
                    SubSeq(content, i, i + Len(pattern) - 1) = pattern}
    IN  IF hits = {} THEN 0 ELSE CHOOSE i \in hits : \A j \in hits : i <= j

RECURSIVE trim_start(_)
trim_start(s) ==
    IF s # <<>> /\ IsSpace(Head(s)) THEN trim_start(Tail(s)) ELSE s

RECURSIVE trim_end(_)
trim_end(s) ==
    IF s # <<>> /\ IsSpace(s[Len(s)]) THEN trim_end(SubSeq(s, 1, Len(s) - 1)) ELSE s

trim(s) == trim_end(trim_start(s))

RECURSIVE FoldRange(_, _, _, _, _)
\* A loop "for x in s[lo..=hi]" with the body Step run from the state st: the
\* state after it.  The range is halved, the first half being run (left =
\* left makes TLC compute it) before the second.
FoldRange(Step(_, _), s, lo, hi, st) ==
    IF lo > hi THEN st
    ELSE IF lo = hi THEN Step(st, s[lo])
    ELSE LET left == FoldRange(Step, s, lo, (lo + hi) \div 2, st)
         IN  IF left = left
             THEN FoldRange(Step, s, (lo + hi) \div 2 + 1, hi, left)
             ELSE st

Fold(Step(_, _), s, st) == FoldRange(Step, s, 1, Len(s), st)

split_step(st, ch) ==
    IF IsSpace(ch)
    THEN [words |-> IF st.cur = <<>> THEN st.words ELSE Append(st.words, st.cur),
          cur |-> <<>>]
    ELSE [words |-> st.words, cur |-> Append(st.cur, ch)]

\* str::split_whitespace: the maximal runs of units that are not blank.
split_whitespace(s) ==
    LET st == Fold(split_step, s, [words |-> <<>>, cur |-> <<>>])
    IN  IF st.cur = <<>> THEN st.words ELSE Append(st.words, st.cur)

join_step(st, word) ==
    [text |-> IF st.first THEN word ELSE st.text \o st.sep \o word,
     sep |-> st.sep,
     first |-> FALSE]

\* [String]::join.
join(words, sep) ==
    Fold(join_step, words, [text |-> <<>>, sep |-> sep, first |-> TRUE]).text

comment_step(st, ch) ==
    IF ch = "\n" THEN [text |-> Append(st.text, ch), in_comment |-> FALSE]
    ELSE IF st.in_comment \/ ch = ";" THEN [text |-> st.text, in_comment |-> TRUE]
    ELSE [text |-> Append(st.text, ch), in_comment |-> FALSE]

\* comment_regex.replace_all on every line: a ";" and what follows it on
\* its line go.
strip_comments(content) ==
    Fold(comment_step, content, [text |-> <<>>, in_comment |-> FALSE]).text

clean_pddl_content(content) ==
    join(split_whitespace(strip_comments(content)), <<" ">>)

\* The body of the loop of extract_balanced_expression; done is its break.
balanced_step(st, ch) ==
    LET depth == IF ch = "(" THEN st.depth + 1
                 ELSE IF ch = ")" THEN st.depth - 1
                 ELSE st.depth
        started == st.started \/ ch = "("
    IN  IF st.done THEN st
        ELSE [depth |-> depth,
              started |-> started,
              result |-> IF started THEN Append(st.result, ch) ELSE st.result,
              done |-> started /\ depth = 0]

extract_balanced_expression(content) ==
    Fold(balanced_step, content,
         [depth |-> 0, started |-> FALSE, result |-> <<>>, done |-> FALSE]).result

\* Regex \(([a-zA-Z0-9_-]+)([^)]*)\) read unit by unit: after a "(" an
\* identifier opens a match (mode "args"), which the next ")" closes.
regex_step(st, ch) ==
    IF st.mode = "args"
    THEN IF ch = ")"
         THEN [caps |-> Append(st.caps, <<st.name, st.args>>), mode |-> "idle",
               name |-> <<>>, args |-> <<>>]
         ELSE [st EXCEPT !.args = Append(@, ch)]
    ELSE IF ch = "(" THEN [st EXCEPT !.mode = "open"]
    ELSE IF st.mode = "open" /\ IsIdentifier(ch)
    THEN [st EXCEPT !.mode = "args", !.name = <<ch>>]
    ELSE [st EXCEPT !.mode = "idle"]

\* The matches captures_iter gives, leftmost first and not overlapping,
\* each as <<group 1, group 2>>.
regex_facts(s) ==
    Fold(regex_step, s,
         [caps |-> <<>>, mode |-> "idle", name |-> <<>>, args |-> <<>>]).caps

\* parse_parameters: the words that start with "?"; type_name is left out
\* (never read).
parse_parameters(params_str) ==
    LET IsParam(w) == IsVariable(w[1])
    IN  SelectSeq(split_whitespace(params_str), IsParam)

extract_predicates(content) ==
    LET start == find(content, <<"(", ":predicates">>)
        pred_section == extract_balanced_expression(From(content, start))
        caps == regex_facts(pred_section)
        Declares(cap) == cap[1] # <<"predicates">>
        kept == SelectSeq(caps, Declares)
    IN  IF start = 0 THEN <<>>
        ELSE [k \in 1..Len(kept) |->
                 [name |-> kept[k][1], parameters |-> parse_parameters(kept[k][2])]]

\* PDDLFormula (temporal_task.rs 114-126): one record shape for the seven
\* variants; subs holds the formulas of And/Or and the one formula of Not,
\* AtStart, AtEnd and OverAll.
Predicate(name, args) ==
    [kind |-> "Predicate", name |-> name, args |-> args, negated |-> FALSE, subs |-> <<>>]

Compound(kind, subs) ==
    [kind |-> kind, name |-> <<>>, args |-> <<>>, negated |-> FALSE, subs |-> subs]

Parenthesized(s) == <<"(">> \o s \o <<")">>

\* The body of the loop of tokenize_formula.
tokenize_step(st, ch) ==
    IF ch = "("
    THEN [st EXCEPT !.cur = IF st.depth > 0 \/ st.in_token THEN Append(@, ch) ELSE @,
                    !.depth = @ + 1]
    ELSE IF ch = ")"
    THEN LET depth == st.depth - 1
             cur == IF depth > 0 \/ st.in_token THEN Append(st.cur, ch) ELSE st.cur
         IN  IF depth = 0 /\ st.in_token
             THEN [tokens |-> Append(st.tokens, Parenthesized(cur)), cur |-> <<>>,
                   depth |-> depth, in_token |-> FALSE]
             ELSE [tokens |-> st.tokens, cur |-> cur, depth |-> depth,
                   in_token |-> st.in_token]
    ELSE IF IsSpace(ch)
    THEN IF st.depth > 0 THEN [st EXCEPT !.cur = Append(@, ch)]
         ELSE IF st.cur # <<>>
         THEN [tokens |-> Append(st.tokens, st.cur), cur |-> <<>>,
               depth |-> st.depth, in_token |-> FALSE]
         ELSE st
    ELSE [st EXCEPT !.cur = Append(@, ch), !.in_token = @ \/ st.depth = 0]

tokenize_formula(formula) ==
    LET st == Fold(tokenize_step, formula,
                   [tokens |-> <<>>, cur |-> <<>>, depth |-> 0, in_token |-> FALSE])
    IN  IF st.cur = <<>> THEN st.tokens
        ELSE IF st.depth > 0 THEN Append(st.tokens, Parenthesized(st.cur))
        ELSE Append(st.tokens, st.cur)

\* token.chars().filter(|&c| c == ch).count()
count(token, ch) == Cardinality({k \in 1..Len(token) : token[k] = ch})

RECURSIVE sub_formulas_from(_, _, _)
\* The loop of extract_sub_formulas from its state (current_formula, depth)
\* on, and the push that follows it.
sub_formulas_from(tokens, cur, depth) ==
    IF tokens = <<>> THEN (IF cur = <<>> THEN <<>> ELSE <<cur>>)
    ELSE LET token == Head(tokens)
             rest == Tail(tokens)
         IN  IF token[1] = "("
             THEN LET c == IF depth > 0 THEN cur \o <<" ">> \o token ELSE token
                      d == depth + count(token, "(") - count(token, ")")
                  IN  IF d = 0 THEN <<c>> \o sub_formulas_from(rest, <<>>, d)
                      ELSE sub_formulas_from(rest, c, d)
             ELSE IF depth > 0
             THEN sub_formulas_from(rest, cur \o <<" ">> \o token, depth)
             ELSE <<Parenthesized(token)>> \o sub_formulas_from(rest, cur, depth)

extract_sub_formulas(tokens) == sub_formulas_from(tokens, <<>>, 0)

RECURSIVE parse_formula(_)
RECURSIVE parse_tokens(_)
RECURSIVE parse_each(_)
\* The loops of the "and" and "or" arms: the sub-formulas that parse.
parse_each(sub_formulas) ==
    IF sub_formulas = <<>> THEN <<>>
    ELSE parse_formula(Head(sub_formulas)) \o parse_each(Tail(sub_formulas))

\* The match of parse_formula on the first token.
parse_tokens(tokens) ==
    LET \* the arms that parse "(" + the remaining tokens + ")"
        Wrapped(kind, remaining_tokens) ==
            LET parsed == parse_formula(Parenthesized(join(remaining_tokens, <<" ">>)))
            IN  IF parsed # None THEN Some(Compound(kind, parsed)) ELSE None
    IN  IF tokens = <<>> THEN None
        ELSE IF tokens[1] = <<"and">>
             THEN Some(Compound("And", parse_each(extract_sub_formulas(Tail(tokens)))))
        ELSE IF tokens[1] = <<"or">>
             THEN Some(Compound("Or", parse_each(extract_sub_formulas(Tail(tokens)))))
        ELSE IF tokens[1] = <<"not">>
             THEN IF Tail(tokens) # <<>> THEN Wrapped("Not", Tail(tokens)) ELSE None
        ELSE IF tokens[1] = <<"at">>
             THEN IF Len(tokens) >= 2 /\ tokens[2] = <<"start">>
                  THEN Wrapped("AtStart", SubSeq(tokens, 3, Len(tokens)))
                  ELSE IF Len(tokens) >= 2 /\ tokens[2] = <<"end">>
                  THEN Wrapped("AtEnd", SubSeq(tokens, 3, Len(tokens)))
                  ELSE None
        ELSE IF tokens[1] = <<"over">>
             THEN IF Len(tokens) >= 2 /\ tokens[2] = <<"all">>
                  THEN Wrapped("OverAll", SubSeq(tokens, 3, Len(tokens)))
                  ELSE None
        ELSE Some(Predicate(tokens[1], Tail(tokens)))

parse_formula(formula_str) ==
    LET trimmed == trim(formula_str)
    IN  IF trimmed = <<>> \/ Head(trimmed) # "(" \/ trimmed[Len(trimmed)] # ")"
        THEN None
        ELSE parse_tokens(tokenize_formula(SubSeq(trimmed, 2, Len(trimmed) - 1)))

extract_action_precondition(action_content) ==
    LET start == find(action_content, <<":precondition">>)
        after_precond == From(action_content, start + 1)
    IN  IF start = 0 THEN None
        ELSE parse_formula(extract_balanced_expression(trim_start(after_precond)))

extract_action_condition(action_content) ==
    LET start == find(action_content, <<":condition">>)
        after_cond == From(action_content, start + 1)
    IN  IF start = 0 THEN None
        ELSE parse_formula(extract_balanced_expression(trim_start(after_cond)))

extract_action_effect(action_content) ==
    LET start == find(action_content, <<":effect">>)
        after_effect == From(action_content, start + 1)
    IN  IF start = 0 THEN None
        ELSE parse_formula(extract_balanced_expression(trim_start(after_effect)))

RECURSIVE trim_start_matches(_, _)
trim_start_matches(s, ch) ==
    IF s # <<>> /\ Head(s) = ch THEN trim_start_matches(Tail(s), ch) ELSE s

RECURSIVE trim_end_matches(_, _)
trim_end_matches(s, ch) ==
    IF s # <<>> /\ s[Len(s)] = ch
    THEN trim_end_matches(SubSeq(s, 1, Len(s) - 1), ch) ELSE s

\* extract_action_duration that takes the third word of the expression for
\* the duration whatever the first two are.
extract_action_duration_unchecked(action_content) ==
    LET start == find(action_content, <<":duration">>)
        after_duration == From(action_content, start + 1)
        duration_str == extract_balanced_expression(trim_start(after_duration))
        cleaned == trim_end_matches(trim_start_matches(trim(duration_str), "("), ")")
        tokens == split_whitespace(cleaned)
    IN  IF start # 0 /\ Len(tokens) >= 3 /\ parse_f64(tokens[3]) # None
        THEN parse_f64(tokens[3])[1]
        ELSE 1

\* The f64 of the PDDLDuration::Fixed returned.
extract_action_duration(action_content) ==
    LET start == find(action_content, <<":duration">>)
        after_duration == From(action_content, start + 1)
        duration_str == extract_balanced_expression(trim_start(after_duration))
        cleaned == trim_end_matches(trim_start_matches(trim(duration_str), "("), ")")
        tokens == split_whitespace(cleaned)
    IN  IF start # 0
           /\ Len(cleaned) >= 3
           /\ SubSeq(cleaned, 1, 3) = <<"=", " ", "?duration">>
           /\ Len(tokens) >= 3
           /\ parse_f64(tokens[3]) # None
        THEN parse_f64(tokens[3])[1]
        ELSE 1

\* The matches of \(:(action|durative-action)\s+([a-zA-Z0-9_-]+) in the
\* cleaned content (one blank between words): their positions, in order.
action_matches(content) ==
    LET Matches(i) ==
            /\ i + 3 <= Len(content)
            /\ content[i] = "("
            /\ content[i + 1] \in {":action", ":durative-action"}
            /\ content[i + 2] = " "
            /\ IsIdentifier(content[i + 3])
    IN  SelectSeq([i \in 1..Len(content) |-> i], Matches)

\* The PDDLAction the body of the loop of extract_actions pushes for the
\* match at position i; parameters are left out (never read).
extract_action(content, i) ==
    LET action_content == extract_balanced_expression(From(content, i))
        is_durative == content[i + 1] = ":durative-action"
    IN  [name |-> <<content[i + 3]>>,
         precondition |-> IF is_durative THEN extract_action_condition(action_content)
                          ELSE extract_action_precondition(action_content),
         effect |-> extract_action_effect(action_content),
         duration |-> IF is_durative THEN Some(extract_action_duration(action_content))
                      ELSE None,
         is_durative |-> is_durative]

\* extract_actions that stops after the first action it finds.
extract_actions_first_only(content) ==
    LET matches == action_matches(content)
    IN  IF matches = <<>> THEN <<>> ELSE <<extract_action(content, matches[1])>>

extract_actions(content) ==
    LET matches == action_matches(content)
    IN  [k \in 1..Len(matches) |-> extract_action(content, matches[k])]

\* PDDLDomain; name, requirements and types are left out (never read).
parse_pddl_domain(content) ==
    LET cleaned_content == clean_pddl_content(content)
    IN  [predicates |-> extract_predicates(cleaned_content),
         actions |-> extract_actions(cleaned_content)]

RECURSIVE collect_conditions_recursive(_, _)
RECURSIVE collect_conditions_each(_, _)
\* The loops "for f in formulas" of collect_conditions_recursive.
collect_conditions_each(formulas, conditions) ==
    IF formulas = <<>> THEN conditions
    ELSE collect_conditions_each(Tail(formulas),
                                 collect_conditions_recursive(Head(formulas), conditions))

\* The conditions vector after the call.
collect_conditions_recursive(formula, conditions) ==
    IF formula.kind = "Predicate"
    THEN Append(conditions, [predicate |-> formula.name, args |-> formula.args,
                             is_negative |-> formula.negated])
    ELSE IF formula.kind \in {"And", "Or"}
    THEN collect_conditions_each(formula.subs, conditions)
    ELSE IF formula.kind = "Not"
    THEN IF formula.subs[1].kind = "Predicate"
         THEN Append(conditions, [predicate |-> formula.subs[1].name,
                                  args |-> formula.subs[1].args,
                                  is_negative |-> TRUE])
         ELSE conditions
    ELSE collect_conditions_recursive(formula.subs[1], conditions)

extract_conditions_from_formula(formula) ==
    IF formula = None THEN <<>> ELSE collect_conditions_recursive(formula[1], <<>>)

RECURSIVE collect_effects_recursive(_, _)
RECURSIVE collect_effects_each(_, _)
collect_effects_each(formulas, effects) ==
    IF formulas = <<>> THEN effects
    ELSE collect_effects_each(Tail(formulas),
                              collect_effects_recursive(Head(formulas), effects))

\* The effects vector after the call.
collect_effects_recursive(formula, effects) ==
    IF formula.kind = "Predicate"
    THEN Append(effects, [predicate |-> formula.name, args |-> formula.args,
                          is_delete |-> formula.negated])
    ELSE IF formula.kind = "And"
    THEN collect_effects_each(formula.subs, effects)
    ELSE IF formula.kind = "Not"
    THEN IF formula.subs[1].kind = "Predicate"
         THEN Append(effects, [predicate |-> formula.subs[1].name,
                               args |-> formula.subs[1].args,
                               is_delete |-> TRUE])
         ELSE effects
    ELSE IF formula.kind \in {"AtStart", "AtEnd"}
    THEN collect_effects_recursive(formula.subs[1], effects)
    ELSE effects

extract_effects_from_formula(formula) ==
    IF formula = None THEN <<>> ELSE collect_effects_recursive(formula[1], <<>>)

RECURSIVE collect_temporal_conditions_recursive(_, _)
RECURSIVE collect_temporal_conditions_each(_, _)
collect_temporal_conditions_each(formulas, groups) ==
    IF formulas = <<>> THEN groups
    ELSE collect_temporal_conditions_each(
             Tail(formulas),
             collect_temporal_conditions_recursive(Head(formulas), groups))

\* The three vectors after the call, as a record.
collect_temporal_conditions_recursive(formula, groups) ==
    IF formula.kind = "AtStart"
    THEN [groups EXCEPT !.conditions_start =
              collect_conditions_recursive(formula.subs[1], @)]
    ELSE IF formula.kind = "OverAll"
    THEN [groups EXCEPT !.conditions_over_all =
              collect_conditions_recursive(formula.subs[1], @)]
    ELSE IF formula.kind = "AtEnd"
    THEN [groups EXCEPT !.conditions_end =
              collect_conditions_recursive(formula.subs[1], @)]
    ELSE IF formula.kind = "And"
    THEN collect_temporal_conditions_each(formula.subs, groups)
    ELSE [groups EXCEPT !.conditions_start = collect_conditions_recursive(formula, @)]

extract_temporal_conditions(formula) ==
    LET empty == [conditions_start |-> <<>>, conditions_over_all |-> <<>>,
                  conditions_end |-> <<>>]
    IN  IF formula = None THEN empty
        ELSE collect_temporal_conditions_recursive(formula[1], empty)

RECURSIVE collect_temporal_effects_recursive(_, _)
RECURSIVE collect_temporal_effects_each(_, _)
collect_temporal_effects_each(formulas, groups) ==
    IF formulas = <<>> THEN groups
    ELSE collect_temporal_effects_each(
             Tail(formulas),
             collect_temporal_effects_recursive(Head(formulas), groups))

\* The two vectors after the call, as a record.
collect_temporal_effects_recursive(formula, groups) ==
    IF formula.kind = "AtStart"
    THEN [groups EXCEPT !.effects_start = collect_effects_recursive(formula.subs[1], @)]
    ELSE IF formula.kind = "AtEnd"
    THEN [groups EXCEPT !.effects_end = collect_effects_recursive(formula.subs[1], @)]
    ELSE IF formula.kind = "And"
    THEN collect_temporal_effects_each(formula.subs, groups)
    ELSE [groups EXCEPT !.effects_end = collect_effects_recursive(formula, @)]

extract_temporal_effects(formula) ==
    LET empty == [effects_start |-> <<>>, effects_end |-> <<>>]
    IN  IF formula = None THEN empty
        ELSE collect_temporal_effects_recursive(formula[1], empty)

\* The TemporalAction convert_pddl_actions makes of one PDDLAction.
convert_pddl_action(action) ==
    LET duration == IF action.duration # None THEN action.duration[1] ELSE 1
        conditions == extract_temporal_conditions(action.precondition)
        effects == extract_temporal_effects(action.effect)
    IN  IF action.is_durative
        THEN [name |-> action.name,
              duration |-> duration,
              conditions_start |-> conditions.conditions_start,
              conditions_over_all |-> conditions.conditions_over_all,
              conditions_end |-> conditions.conditions_end,
              effects_start |-> effects.effects_start,
              effects_end |-> effects.effects_end]
        ELSE [name |-> action.name,
              duration |-> duration,
              conditions_start |-> extract_conditions_from_formula(action.precondition),
              conditions_over_all |-> <<>>,
              conditions_end |-> <<>>,
              effects_start |-> <<>>,
              effects_end |-> extract_effects_from_formula(action.effect)]

convert_pddl_actions(pddl_actions) ==
    [k \in 1..Len(pddl_actions) |-> convert_pddl_action(pddl_actions[k])]

\* The position of the first predicate of that name and number of
\* parameters, or 0.
find_predicate_index(predicates, name, args) ==
    LET hits == {k \in 1..Len(predicates) :
                    /\ predicates[k].name = name
                    /\ Len(predicates[k].parameters) = Len(args)}
    IN  IF hits = {} THEN 0 ELSE CHOOSE k \in hits : \A j \in hits : k <= j

\* State.facts of the State returned; the "=" arm is left out with
\* numeric_values.
parse_initial_state(content, predicates) ==
    LET start == find(content, <<"(", ":init">>)
        init_section == extract_balanced_expression(From(content, start))
        caps == IF start = 0 THEN <<>> ELSE regex_facts(init_section)
        Sets(cap, k) ==
            /\ cap[1] # <<"init">>
            /\ find_predicate_index(predicates, cap[1], split_whitespace(trim(cap[2]))) = k
    IN  [k \in 1..Len(predicates) |-> \E c \in 1..Len(caps) : Sets(caps[c], k)]

parse_goal_conditions(content) ==
    LET start == find(content, <<"(", ":goal">>)
        after_goal == From(content, start + 2)
        goal_section == extract_balanced_expression(trim_start(after_goal))
        formula == parse_formula(goal_section)
    IN  IF start = 0 \/ formula = None THEN <<>>
        ELSE collect_conditions_recursive(formula[1], <<>>)

\* The pair parse_pddl_problem returns, as a record.
parse_pddl_problem(problem_content, predicates) ==
    LET cleaned_content == clean_pddl_content(problem_content)
    IN  [initial_state |-> parse_initial_state(cleaned_content, predicates),
         goal_conditions |-> parse_goal_conditions(cleaned_content)]

\* TemporalTask::new; facts is all of State that is kept, mutex_groups is
\* left out (never read).
new_task == [initial_state |-> <<>>, goal_conditions |-> <<>>, actions |-> <<>>]

\* The assignments of from_pddl to the new task.
task_of(domain, problem) ==
    [new_task EXCEPT !.actions = convert_pddl_actions(domain.actions),
                     !.initial_state = problem.initial_state,
                     !.goal_conditions = problem.goal_conditions]

\* from_pddl once the domain is parsed.
from_domain(domain, problem_content) ==
    task_of(domain, parse_pddl_problem(problem_content, domain.predicates))

from_pddl(domain_content, problem_content) ==
    from_domain(parse_pddl_domain(domain_content), problem_content)

----------------------------------------------------------------------------
(* PDDL texts the parser is given.  A text is written from a description   *)
(* of what its author means: a domain of declared predicates and action    *)
(* blocks, a problem of :init atoms and a goal; formulas are described by  *)
(* PDDLFormula trees.  The texts follow the layout of the domain and the   *)
(* problem of test_action_temporal_properties.                             *)

MaxBlocks == 3      \* action blocks of a domain
MaxInit == 3        \* atoms of an :init section

RECURSIVE WriteFormula(_)
RECURSIVE WriteEach(_)
WriteEach(formulas) ==
    IF formulas = <<>> THEN <<>>
    ELSE <<" ">> \o WriteFormula(Head(formulas)) \o WriteEach(Tail(formulas))

\* The text of a formula.
WriteFormula(f) ==
    IF f.kind = "Predicate"
    THEN Parenthesized(f.name \o (IF f.args = <<>> THEN <<>>
                                  ELSE <<" ">> \o join(f.args, <<" ">>)))
    ELSE Parenthesized((CASE f.kind = "And" -> <<"and">>
                          [] f.kind = "Or" -> <<"or">>
                          [] f.kind = "Not" -> <<"not">>
                          [] f.kind = "AtStart" -> <<"at", " ", "start">>
                          [] f.kind = "AtEnd" -> <<"at", " ", "end">>
                          [] f.kind = "OverAll" -> <<"over", " ", "all">>)
                       \o WriteEach(f.subs))

\* The word of a number.
Numeral(v) == IF v = 5 THEN "5" ELSE IF v = 2 THEN "2" ELSE "-1"

\* The :duration clause of a block.
WriteDuration(d) ==
    IF d.shape = "missing" THEN <<>>
    ELSE <<" ", "\n", " ", ":duration", " ">> \o
         (CASE d.shape = "constant" ->
                   <<"(", "=", " ", "?duration", " ", Numeral(d.value), ")">>
            [] d.shape = "variable" ->
                   <<"(", "=", " ", "?duration", " ", "?d", ")">>
            [] d.shape = "expression" ->
                   <<"(", "=", " ", "?duration", " ",
                     "(", "+", " ", Numeral(d.value), " ", "2", ")", ")">>
            [] d.shape = "inequality" ->
                   <<"(", "<=", " ", "?duration", " ", Numeral(d.value), ")">>)

\* The text of an action block.
WriteBlock(b) ==
    <<"(", b.kind, " ", b.name, "\n", " ", ":parameters", " ", "(", ")">>
        \o WriteDuration(b.duration)
        \o (IF b.condition = None THEN <<>>
            ELSE <<"\n", " ", IF b.kind = ":durative-action" THEN ":condition"
                              ELSE ":precondition", " ">>
                     \o WriteFormula(b.condition[1]))
        \o (IF b.effect = None THEN <<>>
            ELSE <<"\n", " ", ":effect", " ">> \o WriteFormula(b.effect[1]))
        \o <<"\n", ")">>

RECURSIVE WriteBlocks(_)
WriteBlocks(blocks) ==
    IF blocks = <<>> THEN <<>>
    ELSE <<"\n", " ", " ">> \o WriteBlock(Head(blocks)) \o WriteBlocks(Tail(blocks))

\* The predicates every domain below declares.
DeclaredPredicates ==
    <<Predicate(<<"p">>, <<>>), Predicate(<<"q">>, << <<"?x">> >>),
      Predicate(<<"r">>, <<>>), Predicate(<<"at">>, << <<"?x">>, <<"?y">> >>)>>

\* The text of a domain: a comment line holding an action block that is
\* commented out, the predicates, the blocks.
WriteDomain(d) ==
    <<"(", "define", " ", "(", "domain", " ", "d", ")", "\n">>
        \o (IF d.comment
            THEN <<" ", ";", " ", "(", ":action", " ", "a0", ")", "\n">> ELSE <<>>)
        \o <<" ", " ", "(", ":predicates">> \o WriteEach(DeclaredPredicates) \o <<")">>
        \o WriteBlocks(d.blocks)
        \o <<"\n", ")", "\n">>

\* The text of a problem.
WriteProblem(p) ==
    <<"(", "define", " ", "(", "problem", " ", "x", ")", "\n",
      " ", " ", "(", ":domain", " ", "d", ")", "\n",
      " ", " ", "(", ":init">> \o WriteEach(p.init) \o <<")", "\n",
      " ", " ", "(", ":goal", " ">> \o WriteFormula(p.goal) \o <<")", "\n", ")", "\n">>

\* A text with the unit at position cut left out (cut = 0: nothing left out).
CutAt(text, cut) == IF cut = 0 THEN text ELSE RemoveAt(text, cut)

\* The atoms of the formulas of action blocks; "at" is a predicate of two
\* parameters.
ActionAtoms ==
    {Predicate(<<"p">>, <<>>), Predicate(<<"q">>, << <<"?x">> >>),
     Predicate(<<"r">>, <<>>), Predicate(<<"at">>, << <<"?x">>, <<"?y">> >>)}

\* The atoms, plain or under one of the temporal operators.
Tagged(atoms, operators) ==
    atoms \cup {Compound(op, <<a>>) : op \in operators, a \in atoms}

\* The literals of the atoms, plain or under one of the temporal operators.
Items(atoms, operators) ==
    LET literals == atoms \cup {Compound("Not", <<a>>) : a \in atoms}
    IN  Tagged(literals, operators)

\* :condition and :precondition formulas: an item, a conjunction of two
\* items, the condition of test_action_temporal_properties, a temporal
\* operator over a conjunction.
ConditionFormulas ==
    LET operators == {"AtStart", "OverAll", "AtEnd"}
        paired == Tagged({Predicate(<<"p">>, <<>>),
                          Predicate(<<"at">>, << <<"?x">>, <<"?y">> >>)}, operators)
    IN  Items(ActionAtoms, operators)
            \cup {Compound("And", <<i, j>>) : i \in paired, j \in paired}
            \cup {Compound("And", <<Compound("AtStart", <<Predicate(<<"p">>, <<>>)>>),
                                    Compound("OverAll", <<Predicate(<<"q">>, <<>>)>>),
                                    Compound("AtEnd", <<Predicate(<<"r">>, <<>>)>>)>>),
                  Compound("OverAll",
                           <<Compound("And", <<Predicate(<<"p">>, <<>>),
                                               Predicate(<<"r">>, <<>>)>>)>>)}

\* :effect formulas: an item, a conjunction of two items, the effect of
\* test_action_temporal_properties.
EffectFormulas ==
    LET operators == {"AtStart", "AtEnd"}
        paired == Tagged({Predicate(<<"p">>, <<>>),
                          Predicate(<<"at">>, << <<"?x">>, <<"?y">> >>)}, operators)
    IN  Items(ActionAtoms, operators)
            \cup {Compound("And", <<i, j>>) : i \in paired, j \in paired}
            \cup {Compound("And",
                           <<Compound("AtStart",
                                      <<Compound("Not", <<Predicate(<<"p">>, <<>>)>>)>>),
                             Compound("AtEnd", <<Predicate(<<"r">>, <<>>)>>)>>)}

\* :duration clauses: none, (= ?duration c), (= ?duration ?d),
\* (= ?duration (+ c 2)), (<= ?duration c).
Durations ==
    {[shape |-> "missing", value |-> 0]}
        \cup [shape : {"constant", "expression", "inequality"}, value : {5, 2, -1}]
        \cup {[shape |-> "variable", value |-> 0]}

BlockKinds == {":action", ":durative-action"}

\* The block of test_action_temporal_properties but for one part.
PlainBlock(kind, name) ==
    [kind |-> kind, name |-> name,
     duration |-> [shape |-> "constant", value |-> 5],
     condition |-> Some(Compound("AtStart", <<Predicate(<<"p">>, <<>>)>>)),
     effect |-> Some(Compound("AtEnd", <<Predicate(<<"r">>, <<>>)>>))]

\* Blocks that differ in one part each.
VariedBlocks ==
    UNION {{[PlainBlock(kind, "a1") EXCEPT !.condition = Some(f)] : f \in ConditionFormulas}
           \cup {[PlainBlock(kind, "a1") EXCEPT !.effect = Some(f)] : f \in EffectFormulas}
           \cup {[PlainBlock(kind, "a1") EXCEPT !.duration = d] : d \in Durations}
           \cup {[PlainBlock(kind, "a1") EXCEPT !.condition = None, !.effect = None]}
           : kind \in BlockKinds}

\* The blocks of the domains of several blocks.
NamedBlocks ==
    {PlainBlock(":action", "a1"), PlainBlock(":durative-action", "a2"),
     [PlainBlock(":durative-action", "a3") EXCEPT !.duration = [shape |-> "constant",
                                                              value |-> 2]],
     [PlainBlock(":action", "a4") EXCEPT !.effect = None]}

Domains ==
    {[comment |-> FALSE, blocks |-> <<b>>] : b \in VariedBlocks}
        \cup [comment : BOOLEAN, blocks : SeqsUpTo(NamedBlocks, MaxBlocks)]

\* The ground atoms of :init sections.
InitAtoms ==
    {Predicate(<<"p">>, <<>>), Predicate(<<"r">>, <<>>),
     Predicate(<<"q">>, << <<"a">> >>), Predicate(<<"q">>, << <<"b">> >>),
     Predicate(<<"at">>, << <<"a">>, <<"b">> >>)}

Problems ==
    [init : SeqsUpTo(InitAtoms, MaxInit),
     goal : {Predicate(<<"r">>, <<>>),
             Compound("And", <<Predicate(<<"q">>, << <<"a">> >>),
                               Compound("Not", <<Predicate(<<"p">>, <<>>)>>)>>)}]

\* The domain and the problem of test_action_temporal_properties.
TestDomain == [comment |-> FALSE, blocks |-> <<PlainBlock(":durative-action", "a1")>>]

TestProblem ==
    [init |-> <<Predicate(<<"p">>, <<>>), Predicate(<<"q">>, << <<"a">> >>)>>,
     goal |-> Predicate(<<"r">>, <<>>)]

\* The positions of the parentheses of a text.
Parentheses(text) == {k \in 1..Len(text) : text[k] \in {"(", ")"}}

\* What the parser is called on: any domain with the test's problem, the
\* test's domain with any problem, and the test's texts with one
\* parenthesis left out of the domain or of the problem.
ParseInputs ==
    [domain : Domains, problem : {TestProblem}, domain_cut : {0}, problem_cut : {0}]
        \cup [domain : {TestDomain}, problem : Problems, domain_cut : {0},
              problem_cut : {0}]
        \cup [domain : {TestDomain}, problem : {TestProblem},
              domain_cut : Parentheses(WriteDomain(TestDomain)), problem_cut : {0}]
        \cup [domain : {TestDomain}, problem : {TestProblem},
              domain_cut : {0}, problem_cut : Parentheses(WriteProblem(TestProblem))]

----------------------------------------------------------------------------
(* SpecParse: a caller of TemporalPlanner::load_pddl_content (lib.rs       *)
(* 32-34), that is of TemporalTask::from_pddl.                             *)

InitParse ==
    /\ task = new_task
    /\ pc = "parse"
    /\ open_list = <<>>
    /\ closed_list = {}
    /\ node = None
    /\ result = None
    /\ state = None
    /\ call = None
    /\ ret = None

CallLoadPddlContent ==
    /\ pc = "parse"
    /\ call = None
    /\ \E input \in ParseInputs :
        LET domain_content == CutAt(WriteDomain(input.domain), input.domain_cut)
            problem_content == CutAt(WriteProblem(input.problem), input.problem_cut)
        IN  /\ call' = Some([op |-> "load_pddl_content",
                             domain |-> input.domain,
                             problem |-> input.problem,
                             domain_cut |-> input.domain_cut,
                             problem_cut |-> input.problem_cut])
            /\ ret' = Some(from_pddl(domain_content, problem_content))
    /\ UNCHANGED <<task, pc, open_list, closed_list, node, result, state>>

NextParse == CallLoadPddlContent

SpecParse == InitParse /\ [][NextParse]_vars

----------------------------------------------------------------------------
(* Claims checked under SpecParse.                                         *)

\* The call was given texts with every parenthesis in place.
Parsed == Called("load_pddl_content") /\ call[1].domain_cut = 0 /\ call[1].problem_cut = 0

\* C12: the compiled task holds one action per :action and
\* :durative-action block of the domain, in the order of the blocks (told
\* by their names).
C12_OneActionPerBlock ==
    Parsed =>
        [k \in 1..Len(ret[1].actions) |-> ret[1].actions[k].name]
            = [k \in 1..Len(call[1].domain.blocks) |-> <<call[1].domain.blocks[k].name>>]

\* C12's case: a domain of three blocks of both kinds, a durative one
\* first, behind a comment that holds a fourth.
C12_Witness ==
    /\ Parsed
    /\ call[1].domain.comment
    /\ Len(call[1].domain.blocks) = 3
    /\ call[1].domain.blocks[1].kind = ":durative-action"
    /\ call[1].domain.blocks[2].kind = ":action"
    /\ call[1].domain.blocks[3].name # call[1].domain.blocks[1].name
    /\ Len(ret[1].actions) = 3

\* The duration the domain's author gave a block: the constant of
\* (= ?duration c) in a durative action, 1 otherwise.
WrittenDuration(b) ==
    IF b.kind = ":durative-action" /\ b.duration.shape = "constant"
    THEN b.duration.value
    ELSE 1

\* C13: the compiled duration of an action is the constant c of its
\* :duration (= ?duration c), and 1 for every other action: a non-durative
\* one, one without :duration, one whose duration is not such a constant.
C13_DurationCompiled ==
    Parsed =>
        \A k \in 1..Len(ret[1].actions) :
            ret[1].actions[k].duration = WrittenDuration(call[1].domain.blocks[k])

\* C13's case: a durative action of :duration (= ?duration 2) was compiled
\* to duration 2.
C13_Witness ==
    /\ Parsed
    /\ Len(call[1].domain.blocks) = 1
    /\ call[1].domain.blocks[1].kind = ":durative-action"
    /\ call[1].domain.blocks[1].duration = [shape |-> "constant", value |-> 2]
    /\ ret[1].actions[1].duration = 2

RECURSIVE Literals(_, _, _)
RECURSIVE LiteralsOfEach(_, _, _)
LiteralsOfEach(formulas, group, negative) ==
    IF formulas = <<>> THEN <<>>
    ELSE Literals(Head(formulas), group, negative)
             \o LiteralsOfEach(Tail(formulas), group, negative)

\* The atoms of a formula in the order they are written, each with its sign
\* and the temporal operator it stands under ("none" when under none).
Literals(f, group, negative) ==
    IF f.kind = "Predicate"
    THEN <<[predicate |-> f.name, args |-> f.args, negative |-> negative,
            group |-> group]>>
    ELSE IF f.kind = "Not" THEN Literals(f.subs[1], group, ~negative)
    ELSE IF f.kind \in {"AtStart", "AtEnd", "OverAll"}
    THEN Literals(f.subs[1], f.kind, negative)
    ELSE LiteralsOfEach(f.subs, group, negative)

\* The literals of an Option<formula> that stand under one of the groups.
LiteralsIn(formula, groups) ==
    LET InGroups(l) == l.group \in groups
    IN  IF formula = None THEN <<>>
        ELSE SelectSeq(Literals(formula[1], "none", FALSE), InGroups)

\* The compiled conditions are the literals, each once.
SameConditions(conditions, literals) ==
    LET AsLiteral(c) == [predicate |-> c.predicate, args |-> c.args,
                         negative |-> c.is_negative]
        Plain(l) == [predicate |-> l.predicate, args |-> l.args, negative |-> l.negative]
        Times(x, seq) == Cardinality({k \in 1..Len(seq) : seq[k] = x})
        compiled == [k \in 1..Len(conditions) |-> AsLiteral(conditions[k])]
        written == [k \in 1..Len(literals) |-> Plain(literals[k])]
    IN  \A x \in {compiled[k] : k \in 1..Len(compiled)}
                    \cup {written[k] : k \in 1..Len(written)} :
            Times(x, compiled) = Times(x, written)

\* The compiled effects are the literals, each once.
SameEffects(effects, literals) ==
    SameConditions([k \in 1..Len(effects) |->
                       [predicate |-> effects[k].predicate, args |-> effects[k].args,
                        is_negative |-> effects[k].is_delete]],
                   literals)

\* C14: of a durative action every atomic condition is compiled into
\* exactly the group of its temporal operator (at-start when under none)
\* and every atomic effect likewise (at-end when under none); none is
\* dropped, none is in two groups.
C14_EveryAtomInItsGroup ==
    Parsed =>
        \A k \in 1..Len(ret[1].actions) :
            LET b == call[1].domain.blocks[k]
                a == ret[1].actions[k]
            IN  b.kind = ":durative-action" =>
                    /\ SameConditions(a.conditions_start,
                                      LiteralsIn(b.condition, {"AtStart", "none"}))
                    /\ SameConditions(a.conditions_over_all,
                                      LiteralsIn(b.condition, {"OverAll"}))
                    /\ SameConditions(a.conditions_end,
                                      LiteralsIn(b.condition, {"AtEnd"}))
                    /\ SameEffects(a.effects_start, LiteralsIn(b.effect, {"AtStart"}))
                    /\ SameEffects(a.effects_end, LiteralsIn(b.effect, {"AtEnd", "none"}))

\* C15: a non-durative action is compiled to duration 1, no over-all and
\* no at-end condition, no at-start effect, every atom of its precondition
\* an at-start condition and every atom of its effect an at-end effect,
\* whatever temporal operators its formulas hold.
C15_NonDurativeUniform ==
    Parsed =>
        \A k \in 1..Len(ret[1].actions) :
            LET b == call[1].domain.blocks[k]
                a == ret[1].actions[k]
                all == {"AtStart", "OverAll", "AtEnd", "none"}
            IN  b.kind = ":action" =>
                    /\ a.duration = 1
                    /\ a.conditions_over_all = <<>>
                    /\ a.conditions_end = <<>>
                    /\ a.effects_start = <<>>
                    /\ SameConditions(a.conditions_start, LiteralsIn(b.condition, all))
                    /\ SameEffects(a.effects_end, LiteralsIn(b.effect, all))

\* C16: the initial state holds one true bit for each distinct ground atom
\* of :init, two atoms of one predicate with different arguments being
\* different bits.
C16_OneBitPerInitAtom ==
    Parsed =>
        Cardinality({k \in 1..Len(ret[1].initial_state) : ret[1].initial_state[k]})
            = Cardinality({call[1].problem.init[k] : k \in 1..Len(call[1].problem.init)})

\* C17: called on a text whose parentheses do not balance, the parser
\* returns a MalformedSyntax error and no task.
C17_UnbalancedRejected ==
    (Called("load_pddl_content") /\ ~Parsed) =>
        DOMAIN ret[1] = {"error"} /\ ret[1].error = "MalformedSyntax"

----------------------------------------------------------------------------
(* SpecFfi: a C caller of temporal_planner_solve_content and               *)
(* temporal_planner_solve_files (ffi.rs 52-130), which run                 *)
(* TemporalPlanner::solve_from_content / solve_from_files (lib.rs 25-51):  *)
(* the texts are parsed and search runs on the task.  A pointer argument   *)
(* is null, a C string that is not UTF-8, or a C string of text; the       *)
(* handle is null, the handle temporal_planner_create gave, or that        *)
(* handle after temporal_planner_destroy.  `ret` holds the result code     *)
(* and what *plan_length holds after the call (None for a null pointer).   *)

MaxPlanLength == 7  \* what *plan_length holds before a call

\* PlannerResult, ffi.rs 16-24.
PlannerResult ==
    [Success |-> 0, SolutionFound |-> 1, NoSolutionFound |-> 2,
     ParseError |-> 3, FileError |-> 4, InvalidHandle |-> 5]

Handles == {"null", "live", "destroyed"}

TestDomainText == WriteDomain(TestDomain)

TestProblemText == WriteProblem(TestProblem)

FirstOf(positions) == CHOOSE i \in positions : \A j \in positions : i <= j

LastOf(positions) == CHOOSE i \in positions : \A j \in positions : j <= i

\* The test domain's text whole, without its first parenthesis, without
\* its last one.
DomainCuts ==
    {0, FirstOf(Parentheses(TestDomainText)), LastOf(Parentheses(TestDomainText))}

\* The test problem's text whole, without its last parenthesis.
ProblemCuts == {0, LastOf(Parentheses(TestProblemText))}

ContentPointers(cuts) ==
    {[ptr |-> "null", cut |-> 0], [ptr |-> "invalid_utf8", cut |-> 0]}
        \cup {[ptr |-> "text", cut |-> c] : c \in cuts}

PathPointers(paths) ==
    {[ptr |-> "null", path |-> ""], [ptr |-> "invalid_utf8", path |-> ""]}
        \cup {[ptr |-> "text", path |-> f] : f \in paths}

\* std::fs::read_to_string on the caller's file system: Some(text), or
\* None for Err when there is no such file.
read_to_string(path) ==
    IF path = "domain.pddl" THEN Some(TestDomainText)
    ELSE IF path = "cut.pddl"
    THEN Some(CutAt(TestDomainText, LastOf(Parentheses(TestDomainText))))
    ELSE IF path = "problem.pddl" THEN Some(TestProblemText)
    ELSE None

\* The values of the plan_length argument: null, or a pointer to an int.
PlanLengths == {None} \cup {Some(v) : v \in {0, MaxPlanLength}}

InitFfi ==
    /\ task = new_task
    /\ pc = "ffi"
    /\ open_list = <<>>
    /\ closed_list = {}
    /\ node = None
    /\ result = None
    /\ state = None
    /\ call = None
    /\ ret = None

\* The early returns of both functions: a null pointer, or a C string that
\* is not UTF-8 (ffi.rs 59-61, 66-74, 103-105, 110-118).
invalid_arguments(c) ==
    \/ c.handle = "null"
    \/ c.domain.ptr # "text"
    \/ c.problem.ptr # "text"

\* A call returns InvalidHandle and leaves *plan_length alone.
ReturnInvalidHandle(c) ==
    /\ ret' = Some([code |-> PlannerResult.InvalidHandle, plan_length |-> c.plan_length])
    /\ pc' = "returned"
    /\ UNCHANGED task

\* &mut *handle of a destroyed handle (ffi.rs 64, 108) is a use after
\* free: the call either runs on as if the planner were alive or the
\* process dies in it.
Dies(c) ==
    /\ c.handle = "destroyed"
    /\ pc' = "aborted"
    /\ UNCHANGED <<task, ret>>

\* temporal_planner_solve_content up to the call of search: ffi.rs 96-120,
\* lib.rs 48-51 and 32-34.
CallSolveContent ==
    /\ pc = "ffi"
    /\ \E h \in Handles, d \in ContentPointers(DomainCuts),
          p \in ContentPointers(ProblemCuts), pl \in PlanLengths :
        LET c == [op |-> "temporal_planner_solve_content", handle |-> h,
                  domain |-> d, problem |-> p, plan_length |-> pl]
        IN  /\ call' = Some(c)
            /\ IF invalid_arguments(c)
               THEN ReturnInvalidHandle(c)
               ELSE \/ Dies(c)
                    \/ /\ task' = from_pddl(CutAt(TestDomainText, d.cut),
                                             CutAt(TestProblemText, p.cut))
                       /\ pc' = "start"
                       /\ UNCHANGED ret
    /\ UNCHANGED <<open_list, closed_list, node, result, state>>

\* temporal_planner_solve_files up to the call of search, or to the
\* FileError of a file that cannot be read: ffi.rs 52-76 and 84, lib.rs
\* 42-45 and 25-29.
CallSolveFiles ==
    /\ pc = "ffi"
    /\ \E h \in Handles, d \in PathPointers({"domain.pddl", "cut.pddl", "missing.pddl"}),
          p \in PathPointers({"problem.pddl", "missing.pddl"}), pl \in PlanLengths :
        LET c == [op |-> "temporal_planner_solve_files", handle |-> h,
                  domain |-> d, problem |-> p, plan_length |-> pl]
            domain_content == read_to_string(d.path)
            problem_content == read_to_string(p.path)
        IN  /\ call' = Some(c)
            /\ IF invalid_arguments(c)
               THEN ReturnInvalidHandle(c)
               ELSE \/ Dies(c)
                    \/ IF domain_content = None \/ problem_content = None
                       THEN /\ ret' = Some([code |-> PlannerResult.FileError,
                                            plan_length |-> pl])
                            /\ pc' = "returned"
                            /\ UNCHANGED task
                       ELSE /\ task' = from_pddl(domain_content[1], problem_content[1])
                            /\ pc' = "start"
                            /\ UNCHANGED ret
    /\ UNCHANGED <<open_list, closed_list, node, result, state>>

\* The match on what search returned: ffi.rs 76-85, 120-128.
ReturnSearchResult ==
    /\ pc = "done"
    /\ call # None
    /\ ret' = Some(
           IF result[1].kind = "Solution"
           THEN [code |-> PlannerResult.SolutionFound,
                 plan_length |-> IF call[1].plan_length = None THEN None
                                 ELSE Some(Len(result[1].actions))]
           ELSE [code |-> PlannerResult.NoSolutionFound,
                 plan_length |-> call[1].plan_length])
    /\ pc' = "returned"
    /\ UNCHANGED <<task, open_list, closed_list, node, result, state, call>>

NextFfi ==
    CallSolveContent \/ CallSolveFiles \/ SearchBegin \/ SearchStep \/ ReturnSearchResult

SpecFfi == InitFfi /\ [][NextFfi]_vars

\* The outcome of a call as its caller knows it.
Outcome ==
    LET c == call[1]
        content == c.op = "temporal_planner_solve_content"
    IN  IF c.handle # "live" \/ c.domain.ptr # "text" \/ c.problem.ptr # "text"
        THEN "InvalidHandle"
        ELSE IF ~content /\ "missing.pddl" \in {c.domain.path, c.problem.path}
        THEN "FileError"
        ELSE IF \/ content /\ (c.domain.cut # 0 \/ c.problem.cut # 0)
                \/ ~content /\ c.domain.path = "cut.pddl"
        THEN "ParseError"
        ELSE IF result[1].kind = "Solution" THEN "SolutionFound"
        ELSE "NoSolutionFound"

\* C18: a foreign-function solve call returns the code of its outcome
\* (5 for a null or invalid handle or argument, 4 for a file that cannot
\* be read, 3 for text that cannot be parsed, 2 for no plan, 1 for a plan),
\* and *plan_length holds the plan's length after SolutionFound and what
\* it held before in every other case.
C18_CodeOfOutcome ==
    pc = "returned" =>
        /\ ret[1].code = PlannerResult[Outcome]
        /\ ret[1].plan_length =
               IF ret[1].code = PlannerResult.SolutionFound /\ call[1].plan_length # None
               THEN Some(Len(result[1].actions))
               ELSE call[1].plan_length

----------------------------------------------------------------------------
(* Claims on the frontier and the closed list, checked under SpecFrontier. *)

\* The step pops the k-th node of the heap and expands it.
Expands(k) ==
    /\ node' = Some(open_list[k])
    /\ open_list' = RemoveAt(open_list, k) \o successors(open_list[k])

\* The step pops the k-th node of the heap and drops it.
Discards(k) ==
    /\ node' = Some(open_list[k])
    /\ open_list' = RemoveAt(open_list, k)
    /\ closed_list' = closed_list
    /\ pc' = "loop"

\* Two queues hold the same scheduled effects, each as many times.
SameScheduledEffects(p, q) ==
    \A e \in {p[k] : k \in 1..Len(p)} \cup {q[k] : k \in 1..Len(q)} :
        Cardinality({k \in 1..Len(p) : p[k] = e})
            = Cardinality({k \in 1..Len(q) : q[k] = e})

\* The node popped last was expanded: one of its successors is in the heap
\* (every other node of the heap has no parent).
ExpandedLast ==
    /\ node # None
    /\ \E j \in 1..Len(open_list) : open_list[j].parent = node

\* C21: a popped node that does not pass the goal test, whose classical
\* state is that of a closed state but whose scheduled effects differ from
\* that state's, is expanded.  (The closed state is the one expanded last,
\* the only one closed.)
C21_QueuePartOfIdentity ==
    [][\A k \in 1..Len(open_list) :
          (/\ pc = "loop"
           /\ ExpandedLast
           /\ closed_list = {<<node[1].state.classical_state, node[1].g_value>>}
           /\ node' = Some(open_list[k])
           /\ ~is_goal(open_list[k].state, task)
           /\ open_list[k].state.classical_state = node[1].state.classical_state
           /\ ~SameScheduledEffects(open_list[k].state.scheduled_effects,
                                    node[1].state.scheduled_effects))
          => \E j \in 1..Len(open_list) : open_list[j] = open_list[k] /\ Expands(j)]_vars

----------------------------------------------------------------------------
(* Claims on the successors of a node, checked under SpecExpand, and on    *)
(* apply_action, checked under SpecStateSpace.                             *)

\* C24: a successor pushed for action a from node n has
\* g' = n.g + (the successor's clock - n's clock) + the duration of a.
C24_SuccessorCost ==
    pc = "pushed" =>
        \A k \in 1..Len(open_list) :
            open_list[k].g_value =
                node[1].g_value
                    + (open_list[k].state.time - node[1].state.time)
                    + task.actions[open_list[k].action_idx[1]].duration

\* C26: apply_action returns a state whose clock is start_time when that is
\* later than the clock of the state it is given, and that clock otherwise.
C26_ClockAdvancedToStart ==
    Called("apply_action") =>
        ret[1].time = IF call[1].start_time > state[1].time
                      THEN call[1].start_time
                      ELSE state[1].time

----------------------------------------------------------------------------
(* SpecPlan: SpecExpand with the return of the loop, search.rs 94-96: a    *)
(* popped node that passes the goal test ends the search with the plan     *)
(* extract_plan reads off its parent chain.                                *)

ReturnPlan ==
    /\ pc = "popped"
    /\ is_goal(node[1].state, task)
    /\ result' = Some(extract_plan(node[1]))
    /\ pc' = "done"
    /\ UNCHANGED <<task, open_list, closed_list, node, state, call, ret>>

NextPlan == GenerateSuccessors \/ PopSuccessor \/ ReturnPlan

SpecPlan == InitExpand /\ [][NextPlan]_vars

RECURSIVE NodeAt(_, _)
\* The node i actions below the root on the parent chain of n.
NodeAt(n, i) == IF Depth(n) = i THEN n ELSE NodeAt(n.parent[1], i)

\* C25: the plan returned for a node lists the action of every node of its
\* parent chain but the root, from the node next to the root down to the
\* node itself, and its cost is the node's g-value.
C25_PlanIsParentChain ==
    Returned =>
        /\ result[1].kind = "Solution"
        /\ result[1].cost = node[1].g_value
        /\ Len(result[1].actions) = Depth(node[1])
        /\ \A i \in 1..Depth(node[1]) :
               Some(result[1].actions[i]) = NodeAt(node[1], i).action_idx

\* C25's case: a plan of two different actions, the second action of the
\* task applied first.
C25_Witness ==
    /\ Returned
    /\ result[1].actions = <<2, 1>>
    /\ node[1].action_idx = Some(1)
    /\ node[1].parent[1].action_idx = Some(2)

----------------------------------------------------------------------------
(* SpecStn: a caller of SimpleTemporalNetwork (scheduler.rs) that adds     *)
(* actions of a task to a new network and asks whether it is consistent.   *)
(* `state` holds the network.                                              *)

\* scheduler.rs 25-29: the network SimpleTemporalNetwork::new() returns.
InitStn ==
    /\ task \in GoalFreeTask
    /\ pc = "stn"
    /\ open_list = <<>>
    /\ closed_list = {}
    /\ node = None
    /\ result = None
    /\ state = Some([constraints |-> <<>>])
    /\ call = None
    /\ ret = None

\* scheduler.rs 31-36: add_action reads neither argument, leaves the
\* constraints as they are and returns Ok(()).
CallAddAction ==
    /\ pc = "stn"
    /\ \E action_idx \in 1..Len(task.actions), start_time \in 0..MaxTime :
           call' = Some([op |-> "add_action", action_idx |-> action_idx,
                         start_time |-> start_time])
    /\ ret' = Some([kind |-> "Ok"])
    /\ UNCHANGED <<task, pc, open_list, closed_list, node, result, state>>

\* scheduler.rs 38-41: is_consistent is todo!(), which panics; the call
\* returns nothing.
CallIsConsistent ==
    /\ pc = "stn"
    /\ call' = Some([op |-> "is_consistent"])
    /\ ret' = None
    /\ pc' = "panicked"
    /\ UNCHANGED <<task, open_list, closed_list, node, result, state>>

NextStn == CallAddAction \/ CallIsConsistent

SpecStn == InitStn /\ [][NextStn]_vars

\* The edges of the distance graph of difference constraints
\* lower_bound <= t_to - t_from <= upper_bound, as <<from, to, weight>>.
DistanceEdges(constraints) ==
    UNION {{<<constraints[k].from, constraints[k].to, constraints[k].upper_bound>>,
            <<constraints[k].to, constraints[k].from, 0 - constraints[k].lower_bound>>}
           : k \in 1..Len(constraints)}

RECURSIVE WalkWeight(_)
WalkWeight(walk) == IF walk = <<>> THEN 0 ELSE Head(walk)[3] + WalkWeight(Tail(walk))

\* Some closed walk along the edges, of at most as many edges as there are,
\* has a negative weight.
HasNegativeCycle(constraints) ==
    LET edges == DistanceEdges(constraints)
    IN  \E n \in 1..Cardinality(edges) :
            \E walk \in [1..n -> edges] :
                /\ \A k \in 1..(n - 1) : walk[k][2] = walk[k + 1][1]
                /\ walk[n][2] = walk[1][1]
                /\ WalkWeight(walk) < 0

\* C27: is_consistent, called after any sequence of additions, returns false
\* when the accumulated constraints contain a negative cycle and true
\* otherwise.
C27_ConsistencyDecided ==
    Called("is_consistent") => ret = Some(~HasNegativeCycle(state[1].constraints))

----------------------------------------------------------------------------
(* SpecHeuristic: a caller of the two heuristics of heuristics.rs on the   *)
(* initial state of a task.                                                *)

InitHeuristic ==
    /\ task \in TemporalTask
    /\ pc = "heuristic"
    /\ open_list = <<>>
    /\ closed_list = {}
    /\ node = None
    /\ result = None
    /\ state = Some(initial_state(task))
    /\ call = None
    /\ ret = None

\* heuristics.rs 26-30 and 42-48: compute of either implementation of
\* TemporalHeuristic.
CallCompute ==
    /\ pc = "heuristic"
    /\ call = None
    /\ \E heuristic \in {"ff", "admissible"} :
        /\ call' = Some([op |-> "compute", heuristic |-> heuristic])
        /\ ret' = Some(IF heuristic = "ff" THEN compute(state[1], task)
                       ELSE admissible_compute(state[1], task))
    /\ UNCHANGED <<task, pc, open_list, closed_list, node, result, state>>

NextHeuristic == CallCompute

SpecHeuristic == InitHeuristic /\ [][NextHeuristic]_vars

\* The facts a list of conditions requires to hold.
PositiveFacts(conditions) ==
    {conditions[k].predicate : k \in {j \in 1..Len(conditions) : ~conditions[j].is_negative}}

\* The facts an action needs in the relaxation: over-all conditions count as
\* at-start conditions.
Preconditions(action) ==
    PositiveFacts(action.conditions_start) \cup PositiveFacts(action.conditions_over_all)

\* The facts an action adds at its end.
AddedAtEnd(action) ==
    {action.effects_end[k].predicate :
        k \in {j \in 1..Len(action.effects_end) : ~action.effects_end[j].is_delete}}

Greatest(S) == IF S = {} THEN 0 ELSE CHOOSE m \in S : \A x \in S : x <= m

Least(S) == CHOOSE m \in S : \A x \in S : m <= x

\* One scan of all actions over the reached-costs (None: not reached).
Scan(cost, t) ==
    [fact \in Facts |->
        LET reaching == {k \in 1..Len(t.actions) :
                            /\ fact \in AddedAtEnd(t.actions[k])
                            /\ \A p \in Preconditions(t.actions[k]) : cost[p] # None}
            offers == {Greatest({cost[p][1] : p \in Preconditions(t.actions[k])})
                           + t.actions[k].duration : k \in reaching}
            all == offers \cup (IF cost[fact] = None THEN {} ELSE {cost[fact][1]})
        IN  IF all = {} THEN None ELSE Some(Least(all))]

RECURSIVE Scans(_, _, _)
Scans(cost, t, n) == IF n = 0 THEN cost ELSE Scans(Scan(cost, t), t, n - 1)

\* The reached-costs at the fixed point: with durations >= 0 a cost is final
\* after as many scans as there are facts.
ReachedCost(st, t) ==
    Scans([fact \in Facts |-> IF st.classical_state[fact] THEN Some(0) ELSE None],
          t, NumFacts)

\* The max-cost estimate: None when some goal fact is never reached.
MaxCost(st, t) ==
    LET cost == ReachedCost(st, t)
        goals == PositiveFacts(t.goal_conditions)
    IN  IF \E fact \in goals : cost[fact] = None THEN None
        ELSE Some(Greatest({cost[fact][1] : fact \in goals}))

NonNegativeDurations(t) == \A k \in 1..Len(t.actions) : t.actions[k].duration >= 0

\* C28: for a task of non-negative durations the admissible heuristic
\* returns the greatest reached-cost of a goal fact at the fixed point of the
\* relaxation, and no finite number when a goal fact is never reached.
C28_MaxCostReturned ==
    (/\ Called("compute")
     /\ call[1].heuristic = "admissible"
     /\ NonNegativeDurations(task)) =>
        LET h == MaxCost(state[1], task)
        IN  IF h = None THEN ret[1] \notin Int ELSE ret[1] = h[1]

----------------------------------------------------------------------------
(* Claims checked under Spec: what search returns.                         *)

----------------------------------------------------------------------------
(* SpecClock: the states reached from the initial state of a task by       *)
(* process_scheduled_effects and by apply_action at the state's own clock, *)
(* the start-time get_applicable_actions hands out (state_space.rs 37),    *)
(* in any order.  The loop of search alternates the two along a parent     *)
(* chain (search.rs 106-112).                                              *)

\* Tasks of actions with one at-end effect each; a duration may be 0.
InitClock ==
    /\ task \in [initial_state : {[fact \in Facts |-> FALSE]},
                 goal_conditions : {<<>>},
                 actions : UNION {[1..n -> [duration : DurationValues \cup {0},
                                            conditions_start : {<<>>},
                                            conditions_over_all : {<<>>},
                                            effects_start : {<<>>},
                                            effects_end : {<<e>> : e \in Effect}]]
                                  : n \in 1..MaxActions}]
    /\ pc = "advance"
    /\ open_list = <<>>
    /\ closed_list = {}
    /\ node = None
    /\ result = None
    /\ state = Some(initial_state(task))
    /\ call = None
    /\ ret = None

\* search.rs 109-110 with state_space.rs 37: apply_action on an action of
\* the task with start_time = state.time.
CallApplyAtClock ==
    /\ pc = "advance"
    /\ call = None
    /\ \E action_idx \in 1..Len(task.actions) :
        /\ Len(state[1].scheduled_effects) + Len(task.actions[action_idx].effects_end)
               <= MaxPending
        /\ state[1].time + task.actions[action_idx].duration \in (0 - MaxFire)..MaxFire
        /\ call' = Some([op |-> "apply_action", action_idx |-> action_idx,
                         start_time |-> state[1].time])
        /\ ret' = Some(apply_action(state[1], action_idx, state[1].time))
    /\ UNCHANGED <<task, pc, open_list, closed_list, node, result, state>>

NextClock == CallProcessScheduledEffects \/ CallApplyAtClock \/ KeepProcessedState

SpecClock == InitClock /\ [][NextClock]_vars

\* No scheduled effect of st is due before the clock of st.
NoneOverdue(st) ==
    \A k \in 1..Len(st.scheduled_effects) : st.scheduled_effects[k].time >= st.time

\* C30: for a task of non-negative durations no state reached, and no state
\* a call returns, holds a scheduled effect due before its clock; right
\* after time is advanced on a non-empty queue every remaining scheduled
\* effect is due after the clock.
C30_EffectsNotBeforeClock ==
    NonNegativeDurations(task) =>
        /\ NoneOverdue(state[1])
        /\ ret # None => NoneOverdue(ret[1])
        /\ (Called("process_scheduled_effects") /\ state[1].scheduled_effects # <<>>) =>
               \A k \in 1..Len(ret[1].scheduled_effects) :
                   ret[1].scheduled_effects[k].time > ret[1].time

\* C30's case: time is advanced on a queue holding an effect due at the
\* clock itself, which is removed, and a later one, which remains.
C30_Witness ==
    /\ Called("process_scheduled_effects")
    /\ NonNegativeDurations(task)
    /\ \E k \in 1..Len(state[1].scheduled_effects) :
           state[1].scheduled_effects[k].time = state[1].time
    /\ ret[1].scheduled_effects # <<>>
    /\ Len(ret[1].scheduled_effects) < Len(state[1].scheduled_effects)

=============================================================================
